---- MODULE Spec2Model ----
(***************************************************************************)
(* The cross-process command/event bridge of lightweight_charts/chart.py:  *)
(* the supervisor WebviewHandler (controller process), the renderer loop   *)
(* PyWV (renderer process) and the three multiprocessing queues between    *)
(* them.  Controllers are the threads of the controller process, each      *)
(* driving one Chart.                                                      *)
(***************************************************************************)
EXTENDS Integers, Sequences, FiniteSets, TLC

\* ------------------------------------------------------------- bounds
\* Windows created per channel generation.
MaxWin == 2
\* create_window / show / hide / evaluate commands waiting on the queue.
MaxQueue == 2
\* Renderer processes alive at once, abandoned ones included.
MaxProcs == 2
\* Replies that may be outstanding (commands that will reply + replies unread).
MaxRet == 2
\* exit()/_reset() cycles that the history counts.
MaxCycles == 2
\* Messages waiting on the emit queue.
MaxEmit == 2
\* Messages show_async hands to handlers.
MaxDispatch == 2

Controllers == {"c1", "c2"}

\* -------------------------------------------------------- script text
\* Strings that the code inspects are sequences of characters.
Marker == <<"_", "~", "_", "~", "R", "E", "T", "U", "R", "N", "~", "_", "~", "_">>
ShowArg == <<"s", "h", "o", "w">>
HideArg == <<"h", "i", "d", "e">>

\* Python `sub in s`.
Contains(sub, s) ==
    \E k \in 0..(Len(s) - Len(sub)) : SubSeq(s, k + 1, k + Len(sub)) = sub

\* Python `s[14:]`.
From14(s) == SubSeq(s, 15, Len(s))

\* The script bodies controllers submit.
PlainScript == <<"x">>
InnerMarkerScript == <<"x">> \o Marker \o <<"y">>
SyncBodies == {<<"1">>, <<"2">>}
FireScripts == {PlainScript, InnerMarkerScript}

\* window.evaluate_js(text) on window i: what the browser answers is opaque.
EvalJs(i, text) == [win |-> i, text |-> text]

\* ----------------------------------------------------------- commands
\* A command is the tuple (i, arg) of the source: i is a keyword or a
\* window number.  op carries the keyword ("window" for a window number).
CreateWindowCmd == [op |-> "create_window", i |-> -1, arg |-> <<>>]
StartCmd == [op |-> "start", i |-> -1, arg |-> <<>>]
StopCmd == [op |-> "stop", i |-> -1, arg |-> <<>>]
WindowCmd(i, arg) == [op |-> "window", i |-> i, arg |-> arg]

VARIABLES
    \* WebviewHandler (one shared instance, Chart.WV)
    function_call_queue, return_queue, emit_queue, loaded_event,
    wv_process, max_window_num, lock,
    \* PyWV, the renderer behind wv_process
    is_alive, windows, nloaded, outer, inner, sig,
    \* renderer processes of earlier generations that are still alive
    orphans,
    \* controllers: position, create_window's temporary, Chart._i,
    \* exit() called from start(), reply awaited
    pc, reg, handle, inStart, expect,
    \* history: CreateWindow commands put since the last _reset, the _reset
    \* calls made by exit() (counted up to MaxCycles), whether the renderer
    \* behind wv_process has dequeued a Stop, the text it last gave to
    \* window.evaluate_js
    created, cycles, stopped, executed,
    \* Chart: is_alive, who called WebviewHandler.exit ("none": the
    \* application, "pump": show_async, "chart": Chart.exit), the position
    \* in a `with Chart()` block, the messages show_async gave to handlers
    chart_is_alive, caller, block, dispatched,
    \* _parse_js_error and the except clause that calls it: the argument, the
    \* result, the position
    error_str, msg, ppc

supervisor == <<function_call_queue, return_queue, emit_queue, loaded_event,
                wv_process, max_window_num, lock>>
renderer == <<is_alive, windows, nloaded, outer, inner, sig>>
controller == <<pc, reg, handle, inStart, expect>>
history == <<created, cycles, stopped, executed>>
charts == <<chart_is_alive, caller, block, dispatched>>
parser == <<error_str, msg, ppc>>
vars == <<supervisor, renderer, orphans, controller, history, charts, parser>>

NoReply == <<>>

\* ------------------------------------------------------------- _reset
\* _reset() without a new event.
ResetFieldsKeepEvent ==
    /\ loaded_event' = loaded_event
    /\ return_queue' = <<>>
    /\ function_call_queue' = <<>>
    /\ emit_queue' = <<>>
    /\ wv_process' = "new"
    /\ max_window_num' = -1

\* The fields _reset() assigns: fresh queues, event and process object.
ResetFields ==
    /\ loaded_event' = FALSE
    /\ return_queue' = <<>>
    /\ function_call_queue' = <<>>
    /\ emit_queue' = <<>>
    /\ wv_process' = "new"
    /\ max_window_num' = -1

\* A process object that was not started has no PyWV yet.
NoRenderer ==
    /\ is_alive' = TRUE
    /\ windows' = 0
    /\ nloaded' = 0
    /\ outer' = "none"
    /\ inner' = "none"
    /\ sig' = "none"

BridgeInit ==
    /\ loaded_event = FALSE
    /\ return_queue = <<>>
    /\ function_call_queue = <<>>
    /\ emit_queue = <<>>
    /\ wv_process = "new"
    /\ max_window_num = -1
    /\ lock = "none"
    /\ is_alive = TRUE
    /\ windows = 0
    /\ nloaded = 0
    /\ outer = "none"
    /\ inner = "none"
    /\ sig = "none"
    /\ orphans = 0
    /\ pc = [c \in Controllers |-> "idle"]
    /\ reg = [c \in Controllers |-> -1]
    /\ handle = [c \in Controllers |-> -1]
    /\ inStart = [c \in Controllers |-> FALSE]
    /\ expect = [c \in Controllers |-> NoReply]
    /\ created = 0
    /\ cycles = 0
    /\ stopped = FALSE
    /\ executed = <<>>
    /\ chart_is_alive = [c \in Controllers |-> FALSE]
    /\ caller = [c \in Controllers |-> "none"]
    /\ block = [c \in Controllers |-> "out"]
    /\ dispatched = [c \in Controllers |-> <<>>]

NoMsg == [kind |-> "none", d |-> <<>>]

Init ==
    /\ BridgeInit
    /\ error_str = <<>>
    /\ msg = NoMsg
    /\ ppc = "none"

Goto(c, where) == pc' = [pc EXCEPT ![c] = where]

\* mp.Queue() is built with the default maxsize 0: a queue whose maxsize is
\* not positive has no capacity limit and is never full.
maxsize == 0

Full(q) == maxsize > 0 /\ Len(q) >= maxsize

\* queue.put(cmd), without timeout: waits while the queue is full
Put(cmd) ==
    /\ ~Full(function_call_queue)
    /\ function_call_queue' = Append(function_call_queue, cmd)

\* Commands on the queue that will put a reply when executed.
RECURSIVE Replying(_)
Replying(q) ==
    IF q = <<>> THEN 0
    ELSE (IF Head(q).op = "window" /\ Contains(Marker, Head(q).arg) THEN 1 ELSE 0)
         + Replying(Tail(q))

\* ------------------------------------------ WebviewHandler.create_window
CreateWindowPut(c) ==
    /\ pc[c] = "idle"
    /\ created < MaxWin
    /\ max_window_num + 1 < MaxWin
    /\ Len(function_call_queue) < MaxQueue
    /\ Put(CreateWindowCmd)
    /\ created' = created + 1
    /\ Goto(c, "cw_load")
    /\ UNCHANGED <<return_queue, emit_queue, loaded_event, wv_process,
                   max_window_num, lock, renderer, orphans, reg, handle,
                   inStart, expect, cycles, stopped, executed, charts,
                   parser>>

\* self.max_window_num += 1 reads ...
CreateWindowLoad(c) ==
    /\ pc[c] = "cw_load"
    /\ reg' = [reg EXCEPT ![c] = max_window_num]
    /\ Goto(c, "cw_store")
    /\ UNCHANGED <<supervisor, renderer, orphans, handle, inStart, expect, history, charts, parser>>

\* ... and writes.
CreateWindowStore(c) ==
    /\ pc[c] = "cw_store"
    /\ max_window_num' = reg[c] + 1
    /\ reg' = [reg EXCEPT ![c] = -1]
    /\ Goto(c, "cw_return")
    /\ UNCHANGED <<function_call_queue, return_queue, emit_queue, loaded_event,
                   wv_process, lock, renderer, orphans, handle, inStart, expect,
                   history, charts, parser>>

\* create_window returning the number of windows, not the last index.
CreateWindowReturnsCount(c) ==
    /\ pc[c] = "cw_return"
    /\ handle' = [handle EXCEPT ![c] = max_window_num + 1]
    /\ chart_is_alive' = [chart_is_alive EXCEPT ![c] = TRUE]
    /\ Goto(c, "idle")
    /\ UNCHANGED <<supervisor, renderer, orphans, reg, inStart, expect, history,
                   caller, block, dispatched, parser>>

\* return self.max_window_num, kept by Chart.__init__ as self._i; Chart.__init__
\* goes on to set self.is_alive = True
CreateWindowReturn(c) ==
    /\ pc[c] = "cw_return"
    /\ handle' = [handle EXCEPT ![c] = max_window_num]
    /\ chart_is_alive' = [chart_is_alive EXCEPT ![c] = TRUE]
    /\ Goto(c, "idle")
    /\ UNCHANGED <<supervisor, renderer, orphans, reg, inStart, expect, history,
                   caller, block, dispatched, parser>>

\* --------------------------------- WebviewHandler.show/hide/evaluate_js
Enqueue(c, arg) ==
    /\ pc[c] = "idle"
    /\ handle[c] >= 0
    /\ Len(function_call_queue) < MaxQueue
    /\ Contains(Marker, arg) =>
           Replying(function_call_queue) + Len(return_queue) < MaxRet
    /\ Put(WindowCmd(handle[c], arg))
    /\ UNCHANGED <<return_queue, emit_queue, loaded_event, wv_process,
                   max_window_num, lock, renderer, orphans, history, charts, parser>>

Show(c) == Enqueue(c, ShowArg) /\ UNCHANGED controller

Hide(c) == Enqueue(c, HideArg) /\ UNCHANGED controller

Evaluate(c, script) == Enqueue(c, script) /\ UNCHANGED controller

\* A script sent with the return marker in front; the caller then waits for
\* the reply on the return queue.
SyncEvaluate(c, body) ==
    /\ Enqueue(c, Marker \o body)
    /\ expect' = [expect EXCEPT ![c] = body]
    /\ Goto(c, "await_return")
    /\ UNCHANGED <<reg, handle, inStart>>

SyncRead(c) ==
    /\ pc[c] = "await_return"
    /\ return_queue # <<>>
    /\ return_queue' = Tail(return_queue)
    /\ expect' = [expect EXCEPT ![c] = NoReply]
    /\ Goto(c, "idle")
    /\ UNCHANGED <<function_call_queue, emit_queue, loaded_event, wv_process,
                   max_window_num, lock, renderer, orphans, reg, handle, inStart,
                   history, charts, parser>>

\* ------------------------------------------------- WebviewHandler.start
\* start() that runs the process object again whatever its state.
StartSpawnAgain(c) ==
    /\ pc[c] = "idle"
    /\ wv_process = "new" => orphans < MaxProcs
    /\ loaded_event' = FALSE
    /\ wv_process' = "alive"
    /\ outer' = "run"
    /\ Goto(c, "start_put")
    /\ UNCHANGED <<function_call_queue, return_queue, emit_queue, max_window_num,
                   lock, is_alive, windows, nloaded, inner, sig, orphans, reg,
                   handle, inStart, expect, history, charts, parser>>

\* loaded_event.clear(); wv_process.start().  Process.start() asserts that
\* the process object was not started before.
StartSpawn(c) ==
    /\ pc[c] = "idle"
    /\ wv_process = "new" => orphans < MaxProcs
    /\ loaded_event' = FALSE
    /\ IF wv_process = "new"
       THEN /\ wv_process' = "alive"
            /\ outer' = "run"
            /\ Goto(c, "start_put")
       ELSE /\ Goto(c, "raised_AssertionError")
            /\ UNCHANGED <<wv_process, outer>>
    /\ UNCHANGED <<function_call_queue, return_queue, emit_queue, max_window_num,
                   lock, is_alive, windows, nloaded, inner, sig, orphans, reg,
                   handle, inStart, expect, history, charts, parser>>

StartPut(c) ==
    /\ pc[c] = "start_put"
    /\ Put(StartCmd)
    /\ Goto(c, "start_wait")
    /\ UNCHANGED <<return_queue, emit_queue, loaded_event, wv_process,
                   max_window_num, lock, renderer, orphans, reg, handle, inStart,
                   expect, history, charts, parser>>


\* start() returning without looking at what loaded_event.wait gave.
StartLoadedAnyway(c) ==
    /\ pc[c] = "start_wait"
    /\ Goto(c, "idle")
    /\ UNCHANGED <<supervisor, renderer, orphans, reg, handle, inStart, expect,
                   history, charts, parser>>

\* loaded_event.wait(timeout) returned True
StartLoaded(c) ==
    /\ pc[c] = "start_wait"
    /\ loaded_event
    /\ Goto(c, "idle")
    /\ UNCHANGED <<supervisor, renderer, orphans, reg, handle, inStart, expect,
                   history, charts, parser>>

\* loaded_event.wait(timeout) returned False: self.exit(), then raise
StartTimeout(c) ==
    /\ pc[c] = "start_wait"
    /\ ~loaded_event
    /\ inStart' = [inStart EXCEPT ![c] = TRUE]
    /\ Goto(c, "exit_lock")
    /\ UNCHANGED <<supervisor, renderer, orphans, reg, handle, expect, history, charts, parser>>

\* The caller receives the exception.
Raised(c) ==
    /\ pc[c] \in {"raised_TimeoutError", "raised_AssertionError",
                 "raised_KeyboardInterrupt"}
    /\ Goto(c, "idle")
    /\ UNCHANGED <<supervisor, renderer, orphans, reg, handle, inStart, expect,
                   history, charts, parser>>

\* -------------------------------------------------- WebviewHandler.exit
ExitPcs == {"exit_lock", "exit_check", "exit_join1", "exit_join2", "exit_finally"}

ExitCall(c) ==
    /\ pc[c] = "idle"
    /\ Goto(c, "exit_lock")
    /\ UNCHANGED <<supervisor, renderer, orphans, reg, handle, inStart, expect,
                   history, charts, parser>>

\* The lock taken without waiting for it.
ExitLockNoWait(c) ==
    /\ pc[c] = "exit_lock"
    /\ lock' = c
    /\ Goto(c, "exit_check")
    /\ UNCHANGED <<function_call_queue, return_queue, emit_queue, loaded_event,
                   wv_process, max_window_num, renderer, orphans, reg, handle,
                   inStart, expect, history, charts, parser>>

\* with self._lock:
ExitLock(c) ==
    /\ pc[c] = "exit_lock"
    /\ lock = "none"
    /\ lock' = c
    /\ Goto(c, "exit_check")
    /\ UNCHANGED <<function_call_queue, return_queue, emit_queue, loaded_event,
                   wv_process, max_window_num, renderer, orphans, reg, handle,
                   inStart, expect, history, charts, parser>>

\* if self.wv_process.is_alive(): put(('stop', None))
ExitCheck(c) ==
    /\ pc[c] = "exit_check"
    /\ IF wv_process = "alive"
       THEN Put(StopCmd) /\ Goto(c, "exit_join1")
       ELSE UNCHANGED function_call_queue /\ Goto(c, "exit_finally")
    /\ UNCHANGED <<return_queue, emit_queue, loaded_event, wv_process,
                   max_window_num, lock, renderer, orphans, reg, handle, inStart,
                   expect, history, charts, parser>>

\* join(timeout=2.0) returned because the process ended: neither of the two
\* is_alive() tests that follow holds.
ExitJoin1Ended(c) ==
    /\ pc[c] = "exit_join1"
    /\ wv_process # "alive"
    /\ Goto(c, "exit_finally")
    /\ UNCHANGED <<supervisor, renderer, orphans, reg, handle, inStart, expect,
                   history, charts, parser>>

\* join(timeout=2.0) timed out, the process is alive: terminate()
ExitJoin1Timeout(c) ==
    /\ pc[c] = "exit_join1"
    /\ wv_process = "alive"
    /\ sig' = "term"
    /\ Goto(c, "exit_join2")
    /\ UNCHANGED <<supervisor, is_alive, windows, nloaded, outer, inner, orphans,
                   reg, handle, inStart, expect, history, charts, parser>>

\* join(timeout=1.0) returned because the process ended
ExitJoin2Ended(c) ==
    /\ pc[c] = "exit_join2"
    /\ wv_process # "alive"
    /\ Goto(c, "exit_finally")
    /\ UNCHANGED <<supervisor, renderer, orphans, reg, handle, inStart, expect,
                   history, charts, parser>>

\* join(timeout=1.0) timed out, the process is alive: kill().  kill() sends
\* SIGKILL and returns; exit() does not join again.
ExitJoin2Timeout(c) ==
    /\ pc[c] = "exit_join2"
    /\ wv_process = "alive"
    /\ sig' = "kill"
    /\ Goto(c, "exit_finally")
    /\ UNCHANGED <<supervisor, is_alive, windows, nloaded, outer, inner, orphans,
                   reg, handle, inStart, expect, history, charts, parser>>

\* The exception logged and raised again.
ExitExceptReraises(c) == Goto(c, "raised_Exception")

\* except Exception as e: logging.error(...)
ExitExcept(c) == Goto(c, "exit_finally")

\* A step of the try block raises (is_alive, put, join, terminate, kill).
ExitRaises(c) ==
    /\ pc[c] \in {"exit_check", "exit_join1", "exit_join2"}
    /\ ExitExcept(c)
    /\ UNCHANGED <<supervisor, renderer, orphans, reg, handle, inStart, expect,
                   history, charts, parser>>

\* finally: the three queues are drained (a failure of the drain is passed
\* over), then _reset() replaces queues, event and process object; the lock
\* is released.  A process that is still alive is left behind.  When start()
\* called exit(), it raises TimeoutError next.
ExitFinally(c) ==
    /\ pc[c] = "exit_finally"
    /\ ResetFields
    /\ NoRenderer
    /\ orphans' = IF wv_process = "alive" THEN orphans + 1 ELSE orphans
    /\ lock' = "none"
    /\ Goto(c, IF inStart[c] THEN "raised_TimeoutError"
               ELSE IF caller[c] = "pump" THEN "pump_exited"
               ELSE IF caller[c] = "chart" THEN "chart_exited"
               ELSE IF caller[c] = "handler" THEN "handler_exited"
               ELSE "idle")
    /\ inStart' = [inStart EXCEPT ![c] = FALSE]
    /\ created' = 0
    /\ cycles' = IF cycles < MaxCycles THEN cycles + 1 ELSE cycles
    /\ stopped' = FALSE
    /\ executed' = <<>>
    /\ UNCHANGED <<reg, handle, expect, charts, parser>>

\* ----------------------------------------------------------- PyWV.loop
\* The activation of loop() returns or raises: the initial activation ends
\* the process (PyWV.__init__ returns), the activation run by webview.start
\* ends its thread only.
Returns(act) ==
    /\ outer' = IF act = "outer" THEN "done" ELSE outer
    /\ inner' = IF act = "inner" THEN "done" ELSE inner
    /\ wv_process' = IF act = "outer" \/ outer = "done" THEN "dead" ELSE wv_process

Continues == UNCHANGED <<outer, inner, wv_process>>

\* PyWV.create_window: one more window at the end of self.windows
RendererCreateWindow ==
    /\ windows' = windows + 1
    /\ Continues
    /\ UNCHANGED <<is_alive, return_queue, executed>>

\* Start without the test of self.windows.
RendererStartUnchecked(act) ==
    /\ UNCHANGED <<windows, return_queue, executed>>
    /\ IF act = "outer"
       THEN /\ outer' = "gui"
            /\ inner' = "run"
            /\ UNCHANGED <<is_alive, wv_process>>
       ELSE UNCHANGED is_alive /\ Returns(act)

\* if i == 'start'
RendererStart(act) ==
    /\ UNCHANGED <<windows, return_queue, executed>>
    /\ IF windows = 0
       THEN is_alive' = FALSE /\ Returns(act)
       ELSE IF act = "outer"
            THEN /\ outer' = "gui"
                 /\ inner' = "run"
                 /\ UNCHANGED <<is_alive, wv_process>>
            ELSE UNCHANGED is_alive /\ Returns(act)

\* The Stop command passed over.
RendererStopIgnored(act) ==
    /\ Continues
    /\ UNCHANGED <<is_alive, windows, return_queue, executed>>

\* if i == 'stop'
RendererStop(act) ==
    /\ is_alive' = FALSE
    /\ Returns(act)
    /\ UNCHANGED <<windows, return_queue, executed>>

EvalOutcomes == {"ok", "JavascriptException", "KeyError"}

\* RendererWindow replying to every script, marked or not.
RendererWindowAlwaysReplies(act, cmd, outcome) ==
    /\ UNCHANGED <<windows, is_alive>>
    /\ IF cmd.i >= windows
       THEN Returns(act) /\ UNCHANGED <<return_queue, executed>>
       ELSE IF cmd.arg = ShowArg \/ cmd.arg = HideArg
            THEN Continues /\ UNCHANGED <<return_queue, executed>>
            ELSE /\ executed' = IF Contains(Marker, cmd.arg)
                                THEN From14(cmd.arg) ELSE cmd.arg
                 /\ IF outcome = "ok"
                    THEN /\ Continues
                         /\ return_queue' =
                               Append(return_queue, EvalJs(cmd.i, executed'))
                    ELSE Returns(act) /\ UNCHANGED return_queue

\* window = self.windows[i] and what follows
RendererWindow(act, cmd, outcome) ==
    /\ UNCHANGED <<windows, is_alive>>
    /\ IF cmd.i >= windows
       THEN Returns(act) /\ UNCHANGED <<return_queue, executed>>
       ELSE IF cmd.arg = ShowArg \/ cmd.arg = HideArg
            THEN Continues /\ UNCHANGED <<return_queue, executed>>
            ELSE /\ executed' = IF Contains(Marker, cmd.arg)
                                THEN From14(cmd.arg) ELSE cmd.arg
                 /\ IF outcome = "ok"
                    THEN /\ Continues
                         /\ return_queue' =
                               IF Contains(Marker, cmd.arg)
                               THEN Append(return_queue,
                                           EvalJs(cmd.i, From14(cmd.arg)))
                               ELSE return_queue
                    ELSE Returns(act) /\ UNCHANGED return_queue

Execute(act, cmd, outcome) ==
    CASE cmd.op = "create_window" -> RendererCreateWindow
      [] cmd.op = "start" -> RendererStart(act)
      [] cmd.op = "stop" -> RendererStop(act)
      [] OTHER -> RendererWindow(act, cmd, outcome)

\* One turn of `while self.is_alive:` that gets a command.
Loop(act) ==
    /\ wv_process = "alive"
    /\ is_alive
    /\ function_call_queue # <<>>
    /\ function_call_queue' = Tail(function_call_queue)
    /\ LET cmd == Head(function_call_queue) IN
       IF cmd.op = "window" /\ cmd.i < windows /\ cmd.arg \notin {ShowArg, HideArg}
       THEN \E outcome \in EvalOutcomes : Execute(act, cmd, outcome)
       ELSE Execute(act, cmd, "ok")
    /\ stopped' = (stopped \/ Head(function_call_queue).op = "stop")
    /\ UNCHANGED <<emit_queue, loaded_event, max_window_num, lock, nloaded, sig,
                   orphans, controller, created, cycles, charts, parser>>

\* The first activation still reading the queue beside the run-loop.
LoopOuterBesideGui == outer \in {"run", "gui"} /\ Loop("outer")

LoopOuter == outer = "run" /\ Loop("outer")

LoopInner == inner = "run" /\ Loop("inner")

\* `while self.is_alive:` is false for the thread webview.start runs.
InnerStops ==
    /\ wv_process = "alive"
    /\ inner = "run"
    /\ ~is_alive
    /\ inner' = "done"
    /\ wv_process' = IF outer = "done" THEN "dead" ELSE wv_process
    /\ UNCHANGED <<function_call_queue, return_queue, emit_queue, loaded_event,
                   max_window_num, lock, is_alive, windows, nloaded, outer, sig,
                   orphans, controller, history, charts, parser>>

\* events.loaded of a window: lambda: self.loaded_event.set()
WindowLoaded ==
    /\ wv_process = "alive"
    /\ outer = "gui"
    /\ nloaded < windows
    /\ nloaded' = nloaded + 1
    /\ loaded_event' = TRUE
    /\ UNCHANGED <<function_call_queue, return_queue, emit_queue, wv_process,
                   max_window_num, lock, is_alive, windows, outer, inner, sig,
                   orphans, controller, history, charts, parser>>

\* webview.start returns and 'exit' is put, is_alive left as it was.
GuiReturnsStillAlive ==
    /\ wv_process = "alive"
    /\ outer = "gui"
    /\ emit_queue' = Append(emit_queue, "exit")
    /\ outer' = "done"
    /\ wv_process' = IF inner = "run" THEN "alive" ELSE "dead"
    /\ UNCHANGED <<function_call_queue, return_queue, loaded_event, max_window_num,
                   lock, is_alive, windows, nloaded, inner, sig, orphans, controller,
                   history, charts, parser>>

\* webview.start returns (the windows were closed): is_alive = False,
\* emit_queue.put('exit'), return.
GuiReturns ==
    /\ wv_process = "alive"
    /\ outer = "gui"
    /\ is_alive' = FALSE
    /\ emit_queue' = Append(emit_queue, "exit")
    /\ outer' = "done"
    /\ wv_process' = IF inner = "run" THEN "alive" ELSE "dead"
    /\ UNCHANGED <<function_call_queue, return_queue, loaded_event, max_window_num,
                   lock, windows, nloaded, inner, sig, orphans, controller, history, charts, parser>>

\* SIGTERM or SIGKILL takes effect, some time after it was sent.
SignalKills ==
    /\ wv_process = "alive"
    /\ sig # "none"
    /\ wv_process' = "dead"
    /\ UNCHANGED <<function_call_queue, return_queue, emit_queue, loaded_event,
                   max_window_num, lock, renderer, orphans, controller, history, charts, parser>>

\* A process left behind by _reset() ends.
OrphanEnds ==
    /\ orphans > 0
    /\ orphans' = orphans - 1
    /\ UNCHANGED <<supervisor, renderer, controller, history, charts, parser>>

\* ------------------------------------------------ CallbackAPI.callback
\* What the page sends through pywebview.api.callback: an event message, or
\* a message that happens to be the word exit.
CallbackMsgs == {"evt", "exit"}

callback(message) ==
    /\ wv_process = "alive"
    /\ outer = "gui"
    /\ nloaded > 0
    /\ Len(emit_queue) < MaxEmit
    /\ emit_queue' = Append(emit_queue, message)
    /\ UNCHANGED <<function_call_queue, return_queue, loaded_event, wv_process,
                   max_window_num, lock, renderer, orphans, controller, history,
                   charts, parser>>

\* ---------------------------------------------------------- Chart.exit
\* Chart.exit(): Chart.WV.exit() ...
ChartExitCall(c) ==
    /\ pc[c] = "idle"
    /\ handle[c] >= 0
    /\ block[c] = "out"
    /\ caller' = [caller EXCEPT ![c] = "chart"]
    /\ Goto(c, "exit_lock")
    /\ UNCHANGED <<supervisor, renderer, orphans, reg, handle, inStart, expect,
                   history, chart_is_alive, block, dispatched, parser>>

\* __exit__ returning True: the exception of the block is suppressed.
ChartExitDoneSuppresses(c) ==
    /\ pc[c] = "chart_exited"
    /\ chart_is_alive' = [chart_is_alive EXCEPT ![c] = FALSE]
    /\ caller' = [caller EXCEPT ![c] = "none"]
    /\ block' = [block EXCEPT ![c] = "out"]
    /\ Goto(c, "idle")
    /\ UNCHANGED <<supervisor, renderer, orphans, reg, handle, inStart, expect,
                   history, dispatched, parser>>

\* ... self.is_alive = False.  Called by __exit__, the block is left: the
\* exception raised inside it, if any, goes on to the caller (return False).
ChartExitDone(c) ==
    /\ pc[c] = "chart_exited"
    /\ chart_is_alive' = [chart_is_alive EXCEPT ![c] = FALSE]
    /\ caller' = [caller EXCEPT ![c] = "none"]
    /\ block' = [block EXCEPT ![c] = "out"]
    /\ Goto(c, IF block[c] = "leaving_raised" THEN "raised_BlockError" ELSE "idle")
    /\ UNCHANGED <<supervisor, renderer, orphans, reg, handle, inStart, expect,
                   history, dispatched, parser>>

\* ------------------------------------------ Chart.__enter__ / __exit__
\* with chart: ...
WithEnter(c) ==
    /\ pc[c] = "idle"
    /\ handle[c] >= 0
    /\ block[c] = "out"
    /\ block' = [block EXCEPT ![c] = "in"]
    /\ UNCHANGED <<supervisor, renderer, orphans, controller, history,
                   chart_is_alive, caller, dispatched, parser>>

\* The block ends, normally or by an exception (one raised by a call made
\* in the block included): __exit__ calls self.exit().
WithLeave(c, raised) ==
    /\ block[c] = "in"
    /\ \/ pc[c] = "idle"
       \/ raised /\ pc[c] \in {"raised_TimeoutError", "raised_AssertionError"}
    /\ block' = [block EXCEPT ![c] = IF raised THEN "leaving_raised" ELSE "leaving"]
    /\ caller' = [caller EXCEPT ![c] = "chart"]
    /\ Goto(c, "exit_lock")
    /\ UNCHANGED <<supervisor, renderer, orphans, reg, handle, inStart, expect,
                   history, chart_is_alive, dispatched, parser>>

\* The caller of the with statement receives the exception of the block.
BlockRaised(c) ==
    /\ pc[c] = "raised_BlockError"
    /\ Goto(c, "idle")
    /\ UNCHANGED <<supervisor, renderer, orphans, reg, handle, inStart, expect,
                   history, charts, parser>>

\* ---------------------------------------------------- Chart.show_async
\* show_async is called and enters self.show(block=False).
PumpEnter(c) ==
    /\ pc[c] = "idle"
    /\ handle[c] >= 0
    /\ Goto(c, "pump_show")
    /\ UNCHANGED <<supervisor, renderer, orphans, reg, handle, inStart, expect,
                   history, charts, parser>>

\* self.show(block=False) of a chart shown before: Chart.WV.show(self._i);
\* then the `while 1:` loop is entered.
PumpShow(c) ==
    /\ pc[c] = "pump_show"
    /\ Len(function_call_queue) < MaxQueue
    /\ Put(WindowCmd(handle[c], ShowArg))
    /\ Goto(c, "pump")
    /\ UNCHANGED <<return_queue, emit_queue, loaded_event, wv_process,
                   max_window_num, lock, renderer, orphans, reg, handle, inStart,
                   expect, history, charts, parser>>

\* `while emit_queue.empty() and self.is_alive:` ends on a message and
\* `if not self.is_alive` does not hold: emit_queue.get() is called next.
PumpSees(c) ==
    /\ pc[c] = "pump"
    /\ chart_is_alive[c]
    /\ emit_queue # <<>>
    /\ Goto(c, "pump_get")
    /\ UNCHANGED <<supervisor, renderer, orphans, reg, handle, inStart, expect,
                   history, charts, parser>>

\* if not self.is_alive: return
PumpNotAlive(c) ==
    /\ pc[c] = "pump"
    /\ ~chart_is_alive[c]
    /\ Goto(c, "idle")
    /\ UNCHANGED <<supervisor, renderer, orphans, reg, handle, inStart, expect,
                   history, charts, parser>>

\* The message exit decoded and dispatched like any other.
PumpExitDispatched(c) ==
    /\ pc[c] = "pump_get"
    /\ emit_queue # <<>>
    /\ Head(emit_queue) = "exit"
    /\ Len(dispatched[c]) < MaxDispatch
    /\ emit_queue' = Tail(emit_queue)
    /\ dispatched' = [dispatched EXCEPT ![c] = Append(@, Head(emit_queue))]
    /\ UNCHANGED <<function_call_queue, return_queue, loaded_event, wv_process,
                   max_window_num, lock, renderer, orphans, controller, history,
                   chart_is_alive, caller, block, parser>>

\* response = emit_queue.get(); if response == 'exit': Chart.WV.exit() ...
PumpExit(c) ==
    /\ pc[c] = "pump_get"
    /\ emit_queue # <<>>
    /\ Head(emit_queue) = "exit"
    /\ emit_queue' = Tail(emit_queue)
    /\ caller' = [caller EXCEPT ![c] = "pump"]
    /\ Goto(c, "exit_lock")
    /\ UNCHANGED <<function_call_queue, return_queue, loaded_event, wv_process,
                   max_window_num, lock, renderer, orphans, reg, handle, inStart,
                   expect, history, chart_is_alive, block, dispatched, parser>>

\* ... self.is_alive = False; return
PumpReturn(c) ==
    /\ pc[c] = "pump_exited"
    /\ chart_is_alive' = [chart_is_alive EXCEPT ![c] = FALSE]
    /\ caller' = [caller EXCEPT ![c] = "none"]
    /\ Goto(c, "idle")
    /\ UNCHANGED <<supervisor, renderer, orphans, reg, handle, inStart, expect,
                   history, block, dispatched, parser>>

\* The next message taken and its handler started while the handler of the
\* message before may still run (a task created, not awaited).
PumpDispatchAsTask(c) ==
    /\ pc[c] \in {"pump_get", "handler"}
    /\ emit_queue # <<>>
    /\ Head(emit_queue) # "exit"
    /\ Len(dispatched[c]) < MaxDispatch
    /\ emit_queue' = Tail(emit_queue)
    /\ dispatched' = [dispatched EXCEPT ![c] = Append(@, Head(emit_queue))]
    /\ Goto(c, "handler")
    /\ UNCHANGED <<function_call_queue, return_queue, loaded_event, wv_process,
                   max_window_num, lock, renderer, orphans, reg, handle, inStart,
                   expect, history, chart_is_alive, caller, block, parser>>

\* else: func, args = parse_event_message(self.win, response) and the
\* handler is called (awaited when it is a coroutine function)
PumpDispatch(c) ==
    /\ pc[c] = "pump_get"
    /\ emit_queue # <<>>
    /\ Head(emit_queue) # "exit"
    /\ Len(dispatched[c]) < MaxDispatch
    /\ emit_queue' = Tail(emit_queue)
    /\ dispatched' = [dispatched EXCEPT ![c] = Append(@, Head(emit_queue))]
    /\ Goto(c, "handler")
    /\ UNCHANGED <<function_call_queue, return_queue, loaded_event, wv_process,
                   max_window_num, lock, renderer, orphans, reg, handle, inStart,
                   expect, history, chart_is_alive, caller, block, parser>>

\* The handler calls Chart.exit(): Chart.WV.exit() ...
HandlerExits(c) ==
    /\ pc[c] = "handler"
    /\ chart_is_alive[c]
    /\ caller' = [caller EXCEPT ![c] = "handler"]
    /\ Goto(c, "exit_lock")
    /\ UNCHANGED <<supervisor, renderer, orphans, reg, handle, inStart, expect,
                   history, chart_is_alive, block, dispatched, parser>>

\* ... self.is_alive = False, and the handler goes on.
HandlerExitDone(c) ==
    /\ pc[c] = "handler_exited"
    /\ chart_is_alive' = [chart_is_alive EXCEPT ![c] = FALSE]
    /\ caller' = [caller EXCEPT ![c] = "none"]
    /\ Goto(c, "handler")
    /\ UNCHANGED <<supervisor, renderer, orphans, reg, handle, inStart, expect,
                   history, block, dispatched, parser>>

\* The handler returns; the pump goes round its `while 1:` loop.
HandlerReturns(c) ==
    /\ pc[c] = "handler"
    /\ Goto(c, "pump")
    /\ UNCHANGED <<supervisor, renderer, orphans, reg, handle, inStart, expect,
                   history, charts, parser>>

\* KeyboardInterrupt raised in show_async: inside the try block (the loop,
\* a handler) `except KeyboardInterrupt: return`; in self.show(block=False),
\* which stands before the try, nothing catches it.
KeyboardInterrupt(c) ==
    /\ pc[c] \in {"pump_show", "pump", "pump_get", "handler"}
    /\ Goto(c, IF pc[c] = "pump_show" THEN "raised_KeyboardInterrupt" ELSE "idle")
    /\ UNCHANGED <<supervisor, renderer, orphans, reg, handle, inStart, expect,
                   history, charts, parser>>

\* ---------------------------------------------- PyWV._parse_js_error
\* The text of an error is a sequence of lexical tokens: braces, colons,
\* commas, numbers, and strings in double or in single quotes.
Tok(t, q, str, n) == [t |-> t, q |-> q, s |-> str, n |-> n]
LBrace == Tok("lbrace", "", "", 0)
RBrace == Tok("rbrace", "", "", 0)
Colon == Tok("colon", "", "", 0)
Comma == Tok("comma", "", "", 0)
NumTok(n) == Tok("num", "", "", n)
StrTok(q, str) == Tok("str", q, str, 0)

\* The four fields, in the order the error texts carry them.
Fields == <<"name", "line", "column", "message">>
FieldSet == {Fields[k] : k \in 1..Len(Fields)}

\* Values of the dict _parse_js_error returns: a string, an int, or the text
\* it was given.
StrVal(str) == [ty |-> "str", s |-> str, n |-> 0]
IntVal(n) == [ty |-> "int", s |-> "", n |-> n]
RawVal == [ty |-> "raw", s |-> "", n |-> 0]

Dict(d) == [kind |-> "dict", d |-> d]
Scalar == [kind |-> "scalar", d |-> <<>>]

IsJsonScalar(tok) == tok.t = "num" \/ (tok.t = "str" /\ tok.q = "dq")

JsonValue(tok) == IF tok.t = "num" THEN IntVal(tok.n) ELSE StrVal(tok.s)

\* The members of a JSON object: "key": value, separated by commas.
RECURSIVE JsonMembers(_)
JsonMembers(toks) ==
    IF /\ Len(toks) >= 3
       /\ toks[1].t = "str" /\ toks[1].q = "dq"
       /\ toks[2] = Colon
       /\ IsJsonScalar(toks[3])
    THEN LET first == toks[1].s :> JsonValue(toks[3]) IN
         IF Len(toks) = 3 THEN [ok |-> TRUE, d |-> first]
         ELSE IF toks[4] = Comma /\ Len(toks) > 4
              THEN LET rest == JsonMembers(SubSeq(toks, 5, Len(toks))) IN
                   [ok |-> rest.ok, d |-> rest.d @@ first]
              ELSE [ok |-> FALSE, d |-> <<>>]
    ELSE [ok |-> FALSE, d |-> <<>>]

\* json.loads(error_str): ok is FALSE for JSONDecodeError.
JsonLoads(toks) ==
    IF Len(toks) = 1 /\ IsJsonScalar(toks[1])
    THEN [ok |-> TRUE, value |-> Scalar]
    ELSE IF Len(toks) >= 2 /\ toks[1] = LBrace /\ toks[Len(toks)] = RBrace
         THEN IF Len(toks) = 2
              THEN [ok |-> TRUE, value |-> Dict(<<>>)]
              ELSE LET m == JsonMembers(SubSeq(toks, 2, Len(toks) - 1)) IN
                   [ok |-> m.ok, value |-> Dict(m.d)]
         ELSE [ok |-> FALSE, value |-> NoMsg]

\* re.search(r"'key':\s*'([^']+)'") and re.search(r"'key':\s*(\d+)"): the
\* positions where the key in single quotes, a colon and a value of the
\* wanted kind follow each other.
Matches(toks, key, digits) ==
    {k \in 1..(Len(toks) - 2) :
        /\ toks[k] = StrTok("sq", key)
        /\ toks[k + 1] = Colon
        /\ IF digits THEN toks[k + 2].t = "num"
           ELSE toks[k + 2].t = "str" /\ toks[k + 2].q = "sq" /\ toks[k + 2].s # ""}

\* group(1) of the leftmost match
Group1(toks, key, digits) ==
    LET k == CHOOSE k \in Matches(toks, key, digits) :
                 \A j \in Matches(toks, key, digits) : k <= j
    IN toks[k + 2]

\* The fallback: each field extracted on its own, or its default.
RegexFallback(toks) ==
    Dict([f \in FieldSet |->
            CASE f = "name" ->
                   IF Matches(toks, f, FALSE) # {}
                   THEN StrVal(Group1(toks, f, FALSE).s) ELSE StrVal("Unknown")
              [] f = "message" ->
                   IF Matches(toks, f, FALSE) # {}
                   THEN StrVal(Group1(toks, f, FALSE).s) ELSE RawVal
              [] OTHER ->
                   IF Matches(toks, f, TRUE) # {}
                   THEN IntVal(Group1(toks, f, TRUE).n) ELSE IntVal(0)])

\* The pattern extraction alone, without the JSON attempt.
_parse_js_error_regex_only(toks) == RegexFallback(toks)

\* _parse_js_error(error_str)
_parse_js_error(toks) ==
    IF JsonLoads(toks).ok THEN JsonLoads(toks).value ELSE RegexFallback(toks)

\* The caller's f-string: msg['name'], msg['line'], msg['column'],
\* msg['message'].
FormatOutcome(m) ==
    IF m.kind # "dict" THEN "TypeError"
    ELSE IF FieldSet \subseteq DOMAIN m.d THEN "formatted" ELSE "KeyError"

\* Error texts: name TypeError, line 3, column 5, message 'x is undefined',
\* with any of the four fields left out, in JSON (double quotes) or as a
\* Python dict is printed (single quotes), with or without the braces.
SampleValue(f, q) ==
    CASE f = "name" -> StrTok(q, "TypeError")
      [] f = "line" -> NumTok(3)
      [] f = "column" -> NumTok(5)
      [] OTHER -> StrTok(q, "x is undefined")

RECURSIVE Members(_, _, _)
Members(k, q, present) ==
    IF k > Len(Fields) THEN <<>>
    ELSE LET rest == Members(k + 1, q, present) IN
         IF Fields[k] \in present
         THEN <<StrTok(q, Fields[k]), Colon, SampleValue(Fields[k], q)>>
              \o (IF rest # <<>> THEN <<Comma>> ELSE <<>>) \o rest
         ELSE rest

ErrorText(q, present, braces) ==
    IF braces THEN <<LBrace>> \o Members(1, q, present) \o <<RBrace>>
    ELSE Members(1, q, present)

WellFormed == ErrorText("dq", FieldSet, TRUE)

ErrorTexts ==
    {ErrorText(q, present, braces) :
        q \in {"dq", "sq"}, present \in SUBSET FieldSet, braces \in BOOLEAN}
    \cup {<<NumTok(3)>>, <<StrTok("dq", "oops")>>, <<StrTok("sq", "oops")>>}

\* except JavascriptException as e: msg = self._parse_js_error(str(e))
ParseError ==
    /\ ppc = "caught"
    /\ msg' = _parse_js_error(error_str)
    /\ ppc' = "parsed"
    /\ UNCHANGED <<supervisor, renderer, orphans, controller, history, charts,
                   error_str>>

\* raise JavascriptException(f"... {msg['name']}[{msg['line']}:...")
FormatError ==
    /\ ppc = "parsed"
    /\ ppc' = FormatOutcome(msg)
    /\ UNCHANGED <<supervisor, renderer, orphans, controller, history, charts,
                   error_str, msg>>

\* ------------------------------------------------------ specifications
RendererNext ==
    \/ LoopOuter
    \/ LoopInner
    \/ InnerStops
    \/ WindowLoaded
    \/ GuiReturns
    \/ SignalKills
    \/ OrphanEnds

\* create_window and start of one controller
Boot(c) ==
    \/ CreateWindowPut(c)
    \/ CreateWindowLoad(c)
    \/ CreateWindowStore(c)
    \/ CreateWindowReturn(c)
    \/ StartSpawn(c)
    \/ StartPut(c)
    \/ StartLoaded(c)
    \/ StartTimeout(c)
    \/ Raised(c)

\* The body of exit(), once called
ExitSteps(c) ==
    \/ ExitLock(c)
    \/ ExitCheck(c)
    \/ ExitJoin1Ended(c)
    \/ ExitJoin1Timeout(c)
    \/ ExitJoin2Ended(c)
    \/ ExitJoin2Timeout(c)
    \/ ExitFinally(c)

\* create_window, show, start and exit of one controller
Lifecycle(c) ==
    \/ CreateWindowPut(c)
    \/ CreateWindowLoad(c)
    \/ CreateWindowStore(c)
    \/ CreateWindowReturn(c)
    \/ Show(c)
    \/ StartSpawn(c)
    \/ StartPut(c)
    \/ StartLoaded(c)
    \/ StartTimeout(c)
    \/ Raised(c)
    \/ ExitCall(c)
    \/ ExitLock(c)
    \/ ExitCheck(c)
    \/ ExitJoin1Ended(c)
    \/ ExitJoin1Timeout(c)
    \/ ExitJoin2Ended(c)
    \/ ExitJoin2Timeout(c)
    \/ ExitFinally(c)

\* hide and the evaluations of one controller
Scripts(c) ==
    \/ Hide(c)
    \/ \E s \in FireScripts : Evaluate(c, s)
    \/ \E b \in SyncBodies : SyncEvaluate(c, b)
    \/ SyncRead(c)

\* exit() alone: a finalizer (Chart.__del__) or another Chart's teardown
Teardown(c) ==
    \/ ExitCall(c)
    \/ ExitLock(c)
    \/ ExitCheck(c)
    \/ ExitJoin1Ended(c)
    \/ ExitJoin1Timeout(c)
    \/ ExitJoin2Ended(c)
    \/ ExitJoin2Timeout(c)
    \/ ExitFinally(c)

\* A controller thread, and a second thread that runs exit() concurrently.
Next == RendererNext \/ Lifecycle("c1") \/ Teardown("c2")

Spec == Init /\ [][Next]_vars

\* One controller thread issuing every kind of command.
SeqNext == RendererNext \/ Lifecycle("c1") \/ Scripts("c1")

SeqSpec == Init /\ [][SeqNext]_vars

\* One controller issuing commands it does not wait for and one script it
\* waits for.
FireNext ==
    \/ RendererNext
    \/ Lifecycle("c1")
    \/ Hide("c1")
    \/ Evaluate("c1", PlainScript)
    \/ SyncEvaluate("c1", <<"1">>)
    \/ SyncRead("c1")

FireSpec == Init /\ [][FireNext]_vars

\* One controller; the steps of exit()'s try block may raise.
FaultNext == RendererNext \/ Lifecycle("c1") \/ ExitRaises("c1")

FaultSpec == Init /\ [][FaultNext]_vars

\* Chart.exit and the with block of one controller
WithOps(c) ==
    \/ ChartExitCall(c)
    \/ ChartExitDone(c)
    \/ WithEnter(c)
    \/ \E raised \in BOOLEAN : WithLeave(c, raised)
    \/ BlockRaised(c)

\* The event pump of one controller
PumpOps(c) ==
    \/ PumpEnter(c)
    \/ PumpShow(c)
    \/ PumpSees(c)
    \/ PumpNotAlive(c)
    \/ PumpExit(c)
    \/ PumpReturn(c)
    \/ PumpDispatch(c)
    \/ HandlerExits(c)
    \/ HandlerExitDone(c)
    \/ HandlerReturns(c)
    \/ KeyboardInterrupt(c)

\* One controller using Chart.exit and with blocks.
WithNext == RendererNext \/ Lifecycle("c1") \/ WithOps("c1")

WithSpec == Init /\ [][WithNext]_vars

\* One controller running the event pump, the page sending events; the
\* pump is what shows the window and what calls exit().
PumpNext ==
    \/ RendererNext
    \/ \E m \in CallbackMsgs : callback(m)
    \/ Boot("c1")
    \/ ExitSteps("c1")
    \/ PumpOps("c1")

PumpSpec == Init /\ [][PumpNext]_vars

\* The event pump of one controller while a second thread runs exit().
PumpRaceNext == PumpNext \/ Teardown("c2")

PumpRaceSpec == Init /\ [][PumpRaceNext]_vars

\* The steps the pump takes when it is scheduled and its handlers return.
PumpSteps(c) ==
    \/ PumpSees(c)
    \/ PumpNotAlive(c)
    \/ PumpExit(c)
    \/ PumpReturn(c)
    \/ PumpDispatch(c)
    \/ HandlerExitDone(c)
    \/ HandlerReturns(c)

\* The same with the pump scheduled fairly and every exit() running on.
PumpRaceFair ==
    /\ PumpRaceSpec
    /\ WF_vars(PumpSteps("c1"))
    /\ WF_vars(ExitSteps("c1"))
    /\ WF_vars(ExitSteps("c2"))

\* Two controller threads calling create_window on the one supervisor; the
\* first also starts the renderer and calls exit().
RaceNext ==
    \/ RendererNext
    \/ Boot("c1")
    \/ ExitCall("c1")
    \/ ExitSteps("c1")
    \/ CreateWindowPut("c2")
    \/ CreateWindowLoad("c2")
    \/ CreateWindowStore("c2")
    \/ CreateWindowReturn("c2")

RaceSpec == Init /\ [][RaceNext]_vars

\* The except clause of the loop on every error text.
ParseInit ==
    /\ BridgeInit
    /\ error_str \in ErrorTexts
    /\ msg = NoMsg
    /\ ppc = "caught"

ParseNext == ParseError \/ FormatError

ParseSpec == ParseInit /\ [][ParseNext]_vars

\* ------------------------------------------------------------- claims
\* create_window returns to controller c
CreateWindowReturns(c) == pc[c] = "cw_return" /\ pc'[c] = "idle"

\* exit() of controller c completes (the finally block has run)
ExitCompletes(c) == pc[c] = "exit_finally" /\ pc'[c] # "exit_finally"

\* C1, as stated: every handle create_window returns is strictly greater than
\* every handle the supervisor returned before, exit()/_reset() cycles in
\* between included.
C1_NeverReused ==
    [][\A c \in Controllers :
          CreateWindowReturns(c) => \A d \in Controllers : handle'[c] > handle[d]]_vars

\* C9: at most one renderer process of the supervisor is alive in every
\* reachable state.
C9_AtMostOneProcess == (IF wv_process = "alive" THEN 1 ELSE 0) + orphans <= 1

\* CreateWindow commands put on the current queue before its k-th element.
CreatedBefore(k) ==
    created - Cardinality({j \in (k + 1)..Len(function_call_queue) :
                              function_call_queue[j].op = "create_window"})

\* C10: every show, hide or evaluate command on the command queue names a
\* window whose CreateWindow command was put earlier on the same queue.
C10_HandleCreated ==
    \A k \in 1..Len(function_call_queue) :
        function_call_queue[k].op = "window" =>
            function_call_queue[k].i < CreatedBefore(k)

\* The caller of a return-requesting evaluation takes its reply.
ReplyTaken(c) == pc[c] = "await_return" /\ pc'[c] = "idle"

\* C2: with return-requesting evaluations issued one at a time, each reply
\* read from the return queue is the result of the command that awaits it,
\* whatever fire-and-forget evaluations, show and hide commands lie between.
C2_PositionalReplies ==
    [][\A c \in Controllers :
          ReplyTaken(c) => Head(return_queue) = EvalJs(handle[c], expect[c])]_vars

\* A command whose script carries the return marker in front.
WantsReply(cmd) ==
    /\ cmd.op = "window"
    /\ Len(cmd.arg) >= Len(Marker)
    /\ SubSeq(cmd.arg, 1, Len(Marker)) = Marker

\* C3: the renderer loop puts exactly one value on the return queue for every
\* return-requesting evaluation it dequeues, at the end of the queue.
C3_ExactlyOneReply ==
    [][((LoopOuter \/ LoopInner) /\ WantsReply(Head(function_call_queue))) =>
          return_queue' =
              Append(return_queue,
                     EvalJs(Head(function_call_queue).i,
                            From14(Head(function_call_queue).arg)))]_vars

\* The supervisor as _reset() leaves it, with the lock free.
FreshSupervisor ==
    /\ function_call_queue = <<>>
    /\ return_queue = <<>>
    /\ emit_queue = <<>>
    /\ ~loaded_event
    /\ wv_process = "new"
    /\ max_window_num = -1
    /\ lock = "none"

\* C4: start() on a supervisor with no CreateWindow command enqueued never
\* returns normally; it runs exit(), raises TimeoutError, and when it has
\* returned the supervisor holds a fresh process and the renderer it spawned
\* is not alive.
C4_StartWithoutWindowFails ==
    [][\A c \in Controllers :
          /\ (pc[c] = "start_wait" /\ created = 0) =>
                 pc'[c] \in {"start_wait", "exit_lock"}
          /\ (ExitCompletes(c) /\ inStart[c] /\ created = 0) =>
                 /\ pc'[c] = "raised_TimeoutError"
                 /\ wv_process' = "new"
                 /\ wv_process # "alive"
                 /\ orphans' = orphans]_vars

\* C5: exit() enqueues Stop only if the process is alive, terminates only if
\* it is still alive after the first join, kills only if it is still alive
\* after the second join, does none of it if the process was not alive on
\* entry, and the process it tore down is not alive when exit() returns.
C5_EscalationLadder ==
    [][\A c \in Controllers :
          /\ (pc[c] = "exit_check" /\ pc'[c] # "exit_check") =>
                 IF wv_process = "alive"
                 THEN /\ function_call_queue' = Append(function_call_queue, StopCmd)
                      /\ pc'[c] = "exit_join1"
                      /\ sig' = sig
                 ELSE /\ pc'[c] = "exit_finally"
                      /\ UNCHANGED <<function_call_queue, sig>>
          /\ (pc[c] = "exit_join1" /\ pc'[c] # "exit_join1") =>
                 IF wv_process = "alive"
                 THEN sig' = "term" /\ pc'[c] = "exit_join2"
                 ELSE sig' = sig /\ pc'[c] = "exit_finally"
          /\ (pc[c] = "exit_join2" /\ pc'[c] # "exit_join2") =>
                 /\ pc'[c] = "exit_finally"
                 /\ sig' = IF wv_process = "alive" THEN "kill" ELSE sig
          /\ ExitCompletes(c) => wv_process # "alive"]_vars

\* The steps of exit() made while holding the lock.
LockedPcs == {"exit_check", "exit_join1", "exit_join2", "exit_finally"}

\* C6: concurrent exit() calls are serialized by the lock, none of them
\* raises, and each leaves the supervisor as _reset() makes it, ready for a
\* new create_window and start(); a second exit() in sequence leaves it the
\* same.
C6_ExitSerialized ==
    /\ [](\A c, d \in Controllers :
             (pc[c] \in LockedPcs /\ pc[d] \in LockedPcs) => (c = d /\ lock = c))
    /\ [][\A c \in Controllers :
             /\ (pc[c] \in ExitPcs /\ ~inStart[c]) => pc'[c] \in ExitPcs \cup {"idle"}
             /\ ExitCompletes(c) => FreshSupervisor']_vars

\* One exit() is inside the lock while the other waits for it, on a
\* supervisor that already went through an exit().
C6_Witness ==
    /\ pc["c1"] \in LockedPcs
    /\ ~inStart["c1"]
    /\ pc["c2"] = "exit_lock"
    /\ cycles >= 1

\* C7: exit() is left only by completing: whichever step of the teardown
\* raises, no exception reaches the caller and the reset is performed.
C7_ExitNeverRaises ==
    [][\A c \in Controllers :
          pc[c] \in ExitPcs =>
              \/ pc'[c] \in ExitPcs
              \/ /\ pc'[c] = IF inStart[c] THEN "raised_TimeoutError" ELSE "idle"
                 /\ FreshSupervisor']_vars

\* A step of the teardown raised while the process was alive: the finally
\* block is reached with the process alive and not killed.
C7_Witness ==
    /\ pc["c1"] = "exit_finally"
    /\ wv_process = "alive"
    /\ sig # "kill"

\* C8: when exit() returns, the three queues are empty, the readiness event
\* is not set and the process object has not been started.
C8_FreshAfterExit ==
    [][\A c \in Controllers :
          ExitCompletes(c) =>
              /\ function_call_queue' = <<>>
              /\ return_queue' = <<>>
              /\ emit_queue' = <<>>
              /\ ~loaded_event'
              /\ wv_process' = "new"]_vars

\* After an exit() that had to kill, a window was created, start() returned
\* and its window has loaded.
C8_Witness ==
    /\ cycles >= 1
    /\ orphans = 1
    /\ pc["c1"] = "idle"
    /\ wv_process = "alive"
    /\ outer = "gui"
    /\ loaded_event

\* C11: once the renderer has dequeued a Stop, it dequeues and executes no
\* further command: no window is created, no reply is put, and a second Stop
\* changes nothing, before Start as well as inside the UI run-loop.
C11_NothingAfterStop ==
    [][(stopped /\ ~stopped') \/
       (stopped =>
           /\ ~(LoopOuter \/ LoopInner)
           /\ windows' = windows
           /\ is_alive' = is_alive
           /\ Len(return_queue') <= Len(return_queue))]_vars

\* Stop was dequeued inside the UI run-loop and a show command put after it
\* waits on the queue of the process that is still alive.
C11_Witness ==
    /\ stopped
    /\ wv_process = "alive"
    /\ outer = "gui"
    /\ \E k \in 1..Len(function_call_queue) : function_call_queue[k].op = "window"

\* Stop was dequeued before Start, which stays on the queue.
C11_WitnessBeforeStart ==
    /\ stopped
    /\ outer = "done"
    /\ \E k \in 1..Len(function_call_queue) : function_call_queue[k].op = "start"

\* C12: a message equal to the literal exit is never handed to a handler;
\* the pump that receives it runs the supervisor's exit(), then clears
\* is_alive and returns, and a pump whose chart is not alive invokes no
\* handler.
C12_ExitSentinel ==
    /\ [](\A c \in Controllers : \A k \in 1..Len(dispatched[c]) :
             dispatched[c][k] # "exit")
    /\ [][\A c \in Controllers :
             /\ (pc[c] = "pump_get" /\ chart_is_alive[c] /\ emit_queue # <<>>
                    /\ Head(emit_queue) = "exit"
                    /\ emit_queue' = Tail(emit_queue)) =>
                  (pc'[c] = "exit_lock" /\ caller'[c] = "pump"
                     /\ dispatched' = dispatched)
             /\ (caller[c] = "pump" /\ pc[c] # pc'[c]) =>
                  (pc'[c] \in ExitPcs \cup {"pump_exited"}
                   \/ (pc[c] = "pump_exited" /\ pc'[c] = "idle"
                         /\ ~chart_is_alive'[c]))
             /\ pc'[c] = "pump_exited" => FreshSupervisor'
             /\ ~chart_is_alive[c] => dispatched'[c] = dispatched[c]]_vars

\* The pump handed an event to a handler, then received exit, ran exit()
\* and returned.
C12_Witness ==
    /\ dispatched["c1"] = <<"evt">>
    /\ ~chart_is_alive["c1"]
    /\ pc["c1"] = "idle"
    /\ cycles = 1
    /\ FreshSupervisor

C13_BoundedChannel ==
    function_call_queue # <<>> =>
        (maxsize > 0 /\ Len(function_call_queue) <= maxsize)

\* C14: when the renderer dequeues a return-requesting evaluation of an
\* existing window, its outcome crosses to the controller: a value is put on
\* the return queue, or the renderer process ends.
C14_FailureCrossesBoundary ==
    [][((LoopOuter \/ LoopInner)
          /\ WantsReply(Head(function_call_queue))
          /\ Head(function_call_queue).i < windows) =>
         (Len(return_queue') = Len(return_queue) + 1 \/ wv_process' = "dead")]_vars

\* C15: _parse_js_error of the well-formed JSON object text returns exactly
\* its four values: name TypeError, line 3, column 5, message 'x is
\* undefined'.
C15_WellFormedRoundTrip ==
    (ppc # "caught" /\ error_str = WellFormed) =>
        /\ msg.kind = "dict"
        /\ DOMAIN msg.d = FieldSet
        /\ msg.d["name"] = StrVal("TypeError")
        /\ msg.d["line"] = IntVal(3)
        /\ msg.d["column"] = IntVal(5)
        /\ msg.d["message"] = StrVal("x is undefined")

\* The well-formed text was parsed and formatted.
C15_Witness == error_str = WellFormed /\ ppc = "formatted"

\* C16: for every error text the result has all four fields, each one the
\* value found in the text or its default, and the caller's formatting does
\* not fail.
C16_AlwaysFourFields ==
    /\ ppc # "caught" => (msg.kind = "dict" /\ DOMAIN msg.d = FieldSet)
    /\ ppc \notin {"KeyError", "TypeError"}

\* The lifecycle state of the process behind wv_process: 0 NotStarted,
\* 1 Starting, 2 Ready (a window has loaded, start() has not returned yet),
\* 3 Running, 4 Stopping (Stop dequeued, the loop left, or a signal sent),
\* 5 Terminated.
ProcessState ==
    IF wv_process = "new" THEN 0
    ELSE IF wv_process = "dead" THEN 5
    ELSE IF stopped \/ ~is_alive \/ sig # "none" THEN 4
    ELSE IF nloaded = 0 THEN 1
    ELSE IF \E c \in Controllers : pc[c] = "start_wait" THEN 2
    ELSE 3

\* C18: the state of a renderer process never moves back (a _reset gives the
\* supervisor another process), and a Terminated process dequeues no
\* command, writes no reply and emits no event.
C18_ForwardOnly ==
    [][wv_process' = "new" \/
       (/\ ProcessState' >= ProcessState
        /\ wv_process = "dead" =>
              /\ ~(LoopOuter \/ LoopInner)
              /\ Len(function_call_queue') >= Len(function_call_queue)
              /\ Len(return_queue') <= Len(return_queue)
              /\ Len(emit_queue') <= Len(emit_queue))]_vars

\* A process that loaded its window, dequeued Stop and ended, with a command
\* put after the Stop left on its queue.
C18_Witness ==
    /\ wv_process = "dead"
    /\ nloaded > 0
    /\ stopped
    /\ function_call_queue # <<>>

\* C19: the loop that dequeues Start with no window sets is_alive to false
\* and returns: the UI run-loop is not entered, nothing is put on the emit
\* queue or the return queue and the readiness event is not set.
C19_StartWithoutWindows ==
    [][((LoopOuter \/ LoopInner)
          /\ Head(function_call_queue).op = "start" /\ windows = 0) =>
         (/\ ~is_alive'
          /\ outer' = "done"
          /\ inner' = "none"
          /\ wv_process' = "dead"
          /\ emit_queue' = emit_queue
          /\ return_queue' = return_queue
          /\ loaded_event' = loaded_event
          /\ ~loaded_event')]_vars

\* start() waits for the readiness of a renderer that dequeued Start with no
\* window and ended.
C19_Witness ==
    /\ pc["c1"] = "start_wait"
    /\ created = 0
    /\ function_call_queue = <<>>
    /\ wv_process = "dead"
    /\ outer = "done"
    /\ ~is_alive

\* C20: a show, hide or evaluate command whose handle is not an index of an
\* existing window is swallowed: nothing is raised, no reply is put, windows
\* and is_alive stay as they are and the loop goes on.
C20_InvalidHandleSwallowed ==
    [][((LoopOuter \/ LoopInner)
          /\ Head(function_call_queue).op = "window"
          /\ Head(function_call_queue).i >= windows) =>
         (/\ outer' = outer
          /\ inner' = inner
          /\ wv_process' = wv_process
          /\ is_alive' = is_alive
          /\ windows' = windows
          /\ return_queue' = return_queue)]_vars

\* C21: the loop survives the evaluation of a script, failed or not: the
\* activation that dequeued it keeps running, the process stays alive and
\* is_alive stays true, so the commands put after it are executed.
C21_LoopSurvivesScriptFailure ==
    [][((LoopOuter \/ LoopInner)
          /\ Head(function_call_queue).op = "window"
          /\ Head(function_call_queue).i < windows
          /\ Head(function_call_queue).arg \notin {ShowArg, HideArg}) =>
         (/\ outer' = outer
          /\ inner' = inner
          /\ wv_process' = wv_process
          /\ is_alive')]_vars

C23_MarkerIsPrefix ==
    [][((LoopOuter \/ LoopInner)
          /\ Head(function_call_queue).op = "window"
          /\ Head(function_call_queue).i < windows
          /\ Head(function_call_queue).arg \notin {ShowArg, HideArg}) =>
         LET cmd == Head(function_call_queue) IN
         IF WantsReply(cmd)
         THEN /\ executed' = From14(cmd.arg)
              /\ return_queue' \in
                    {return_queue, Append(return_queue, EvalJs(cmd.i, executed'))}
         ELSE /\ executed' = cmd.arg
              /\ return_queue' = return_queue]_vars

C25_StartWaitsForFreshLoad ==
    /\ [][/\ (pc["c1"] = "idle" /\ pc'["c1"] = "start_put") =>
               /\ ~loaded_event'
               /\ wv_process = "new" /\ wv_process' = "alive"
               /\ function_call_queue' = function_call_queue
          /\ (pc["c1"] = "start_put" /\ pc'["c1"] = "start_wait") =>
               /\ ~loaded_event
               /\ function_call_queue' = Append(function_call_queue, StartCmd)
          /\ (~loaded_event /\ loaded_event') =>
               (outer = "gui" /\ nloaded' = nloaded + 1)
          /\ (pc["c1"] = "start_wait" /\ pc'["c1"] = "idle") =>
               loaded_event]_vars
    /\ []((pc["c1"] = "start_wait" /\ outer = "gui") =>
            \A k \in 1..Len(function_call_queue) :
                function_call_queue[k].op # "create_window")

\* After an earlier generation was torn down, start() returned normally on
\* the load of a window of the new process.
C25_Witness ==
    /\ cycles >= 1
    /\ pc["c1"] = "idle"
    /\ loaded_event
    /\ wv_process = "alive"
    /\ outer = "gui"
    /\ nloaded >= 1

\* C26: a message is put at the end of the emit queue and the pump takes
\* the one at its head; a message is handed to a handler only by a pump
\* that is not inside a handler, and while a handler runs its pump takes
\* no message, so the handlers of one pump run one after the other in the
\* order of the queue.
C26_InOrderOneAtATime ==
    [][/\ Len(emit_queue') > Len(emit_queue) =>
            \E m \in CallbackMsgs : emit_queue' = Append(emit_queue, m)
       /\ \A c \in Controllers :
            /\ dispatched'[c] # dispatched[c] =>
                 /\ pc[c] = "pump_get" /\ pc'[c] = "handler"
                 /\ emit_queue # <<>>
                 /\ dispatched'[c] = Append(dispatched[c], Head(emit_queue))
                 /\ emit_queue' = Tail(emit_queue)
            /\ pc[c] = "handler" =>
                 ~(emit_queue # <<>> /\ emit_queue' = Tail(emit_queue))
            /\ (pc[c] = "pump_get" /\ pc'[c] = "handler") =>
                 Len(dispatched'[c]) = Len(dispatched[c]) + 1]_vars

\* The second handler of a pump runs, after the first returned, while a
\* further message waits on the emit queue.
C26_Witness ==
    /\ Len(dispatched["c1"]) = 2
    /\ pc["c1"] = "handler"
    /\ emit_queue # <<>>

\* C27: a pump whose chart is no longer alive leaves at its next check and
\* takes and dispatches nothing on the way, whatever waits on the emit
\* queue; a KeyboardInterrupt in show_async never reaches its caller.
C27_PumpLeavesQuietly ==
    /\ [][\A c \in Controllers :
             (pc[c] = "pump" /\ ~chart_is_alive[c] /\ pc'[c] # pc[c]) =>
                 /\ pc'[c] = "idle"
                 /\ emit_queue' = emit_queue
                 /\ dispatched' = dispatched]_vars
    /\ [](\A c \in Controllers : pc[c] # "raised_KeyboardInterrupt")

\* C28: commands are put at the end of the command queue and the renderer
\* takes the one at its head and removes it, so they are executed in the
\* order of their puts and none twice; the two activations of loop() never
\* read the queue at the same time: a command is taken by the first
\* activation before the run-loop exists or by the second while the first
\* is inside webview.start, and by nothing else.
C28_OneReaderInOrder ==
    /\ [](~(outer = "run" /\ inner = "run"))
    /\ [][/\ Len(function_call_queue') > Len(function_call_queue) =>
               function_call_queue' =
                   Append(function_call_queue,
                          function_call_queue'[Len(function_call_queue')])
          /\ (LoopOuter \/ LoopInner) =>
               function_call_queue' = Tail(function_call_queue)
          /\ (/\ function_call_queue # <<>>
              /\ function_call_queue' = Tail(function_call_queue)
              /\ pc' = pc) =>
               \/ outer = "run" /\ inner = "none"
               \/ outer = "gui" /\ inner = "run"
          /\ (outer = "gui" /\ outer' # "gui") =>
               (function_call_queue' = function_call_queue \/ pc' # pc)]_vars

\* The second activation has taken the Stop put after Start while the
\* first is inside webview.start.
C28_Witness ==
    /\ outer = "gui"
    /\ inner = "done"
    /\ stopped
    /\ function_call_queue = <<>>

\* C29: with one controller thread, the k-th create_window call since the
\* last _reset returns k - 1, the renderer stores the window of the k-th
\* CreateWindow command at index k - 1, and a show, hide or evaluate
\* command whose create_window was put on the same queue before it finds
\* its window when it is dequeued.
C29_HandleIsIndex ==
    [][/\ (pc["c1"] = "cw_return" /\ pc'["c1"] = "idle") =>
            handle'["c1"] = created - 1
       /\ ((LoopOuter \/ LoopInner)
             /\ Head(function_call_queue).op = "create_window") =>
            /\ windows = CreatedBefore(1) - 1
            /\ windows' = windows + 1
       /\ ((LoopOuter \/ LoopInner)
             /\ Head(function_call_queue).op = "window"
             /\ Head(function_call_queue).i < CreatedBefore(1)) =>
            Head(function_call_queue).i < windows]_vars

\* A script sent to the second window, right after its create_window
\* returned, was executed in that window and its reply put.
C29_Witness ==
    /\ handle["c1"] = 1
    /\ windows = 2
    /\ return_queue = <<EvalJs(1, <<"1">>)>>

\* C30: while one Chart is alive, the steps of the exit() run for another
\* Chart (by its finalizer, its exit() or its with block) put nothing on
\* the command queue and take nothing off it, and leave the emit queue,
\* the renderer process and the numbering of the handles as they are.
C30_TeardownIsolated ==
    [][(/\ pc["c2"] \in ExitPcs
        /\ pc'["c2"] # pc["c2"]
        /\ chart_is_alive["c1"]
        /\ handle["c1"] >= 0) =>
          /\ function_call_queue' = function_call_queue
          /\ emit_queue' = emit_queue
          /\ wv_process' = wv_process
          /\ max_window_num' = max_window_num]_vars

\* C33: the renderer that takes Stop inside the run-loop ends its process
\* by that, and an exit() waiting in its first join for a renderer that
\* took Stop inside the run-loop goes on to its cleanup without sending
\* SIGTERM or SIGKILL.
C33_StopEndsProcess ==
    [][/\ (LoopInner /\ outer = "gui"
             /\ Head(function_call_queue).op = "stop") =>
            wv_process' = "dead"
       /\ \A c \in Controllers :
            (/\ pc[c] = "exit_join1" /\ pc'[c] # pc[c]
             /\ stopped /\ outer \in {"gui", "done"} /\ inner = "done") =>
                (pc'[c] = "exit_finally" /\ sig' = "none")]_vars

\* C34: when each of two controller threads has made one create_window
\* call on the same queue and both calls have returned, the two handles
\* differ and are the positions 0 and 1 of the two CreateWindow commands.
C34_DistinctHandles ==
    (/\ pc["c1"] = "idle" /\ pc["c2"] = "idle"
     /\ handle["c1"] >= 0 /\ handle["c2"] >= 0
     /\ created = 2 /\ cycles = 0) =>
        /\ handle["c1"] # handle["c2"]
        /\ {handle["c1"], handle["c2"]} = {0, 1}

\* C32: a pump that is about to call emit_queue.get() finds a message on
\* the emit queue, also while another thread runs exit().
C32_GetFindsMessage ==
    \A c \in Controllers : pc[c] = "pump_get" => emit_queue # <<>>

\* show_async of c is inside its loop, a handler or the exit() it called.
InPump(c) ==
    \/ pc[c] \in {"pump", "pump_get", "handler", "pump_exited", "handler_exited"}
    \/ caller[c] \in {"pump", "handler"}

\* C31: once the renderer process has ended, a pump that is running
\* eventually returns (a pump held only by the bound on the recorded
\* dispatches counts as returned).
C31_PumpReturnsAfterEnd ==
    (InPump("c1") /\ wv_process = "dead") ~>
        (~InPump("c1") \/ Len(dispatched["c1"]) = MaxDispatch)
====
